---- MODULE Spec2Model ----
(***************************************************************************)
(* The incremental cache-merge pipeline of data/data_fetcher.py:           *)
(* fetch_fred_data loads the pickled dataset and its metadata sidecar,     *)
(* fetches the catalog indicators that are not cached, combines the new    *)
(* series with the cached frame on a daily axis and saves the result.      *)
(*                                                                         *)
(* Calendar days are integers (day numbers), a frame is its index (a       *)
(* sequence of days) plus a sequence of named columns whose values are     *)
(* positional, as in pandas; a column name may occur twice.                *)
(***************************************************************************)
EXTENDS Integers, Sequences, FiniteSets, TLC

\* Days the provider has observations for: 1..MaxDate.
MaxDate == 3

\* The catalog of data/mappings.py, abridged to two of its entries.
INDICATORS == {"GDP", "FEDFUNDS"}

\* tenacity: stop_after_attempt(3).
stop_after_attempt == 3

\* pandas' missing-value marker (every observation is >= 1).
NaN == 0 - 1

Dates == 1 .. MaxDate

\* The value observed on day d in revision rev of a series. Revision 0 is
\* what an existing cache holds, revision 1 what the provider serves now.
Observation(rev, d) == rev * (MaxDate + 1) + d

----------------------------------------------------------------------------
(* Sequences and sets of days *)

SetMin(S) == CHOOSE m \in S : \A x \in S : m <= x
SetMax(S) == CHOOSE m \in S : \A x \in S : x <= m

RECURSIVE SortSet(_)
SortSet(S) == IF S = {} THEN << >>
              ELSE LET m == SetMin(S) IN << m >> \o SortSet(S \ {m})

Range(s) == { s[i] : i \in DOMAIN s }

\* Position of the first occurrence of x in s (x occurs in s).
Position(s, x) == CHOOSE i \in DOMAIN s : s[i] = x /\ \A j \in 1 .. (i - 1) : s[j] # x

----------------------------------------------------------------------------
(* pandas objects *)

\* A Series: a sorted index of days and the values at those positions.
Series(S, rev) ==
    LET idx == SortSet(S)
    IN  [index |-> idx, values |-> [i \in DOMAIN idx |-> Observation(rev, idx[i])]]

EmptySeries == [index |-> << >>, values |-> << >>]

\* Series.get with NaN for a missing label.
ValueAt(index, values, d) ==
    IF d \in Range(index) THEN values[Position(index, d)] ELSE NaN

\* cached_data = {} (a dict) and a DataFrame are different kinds of object.
EmptyDict == [kind |-> "dict"]

Frame(index, columns) == [kind |-> "frame", index |-> index, columns |-> columns]

\* Only a DataFrame has the attribute .empty.
has_empty(obj) == obj.kind = "frame"

\* DataFrame.empty: no rows or no columns.
empty(frame) == Len(frame.index) = 0 \/ Len(frame.columns) = 0

\* list(df.columns)
columns_list(frame) == [i \in DOMAIN frame.columns |-> frame.columns[i].name]

\* pd.date_range(start, end, freq="D")
date_range(start, end) == [i \in 1 .. (end - start + 1) |-> start + i - 1]

\* DataFrame.reindex(new_index): a label of the old index keeps its row, any
\* other label gets a row of NaN; rows whose label is not in new_index go.
reindex(frame, new_index) ==
    Frame(new_index,
          [c \in DOMAIN frame.columns |->
              [name   |-> frame.columns[c].name,
               values |-> [i \in DOMAIN new_index |->
                              ValueAt(frame.index, frame.columns[c].values, new_index[i])]]])

\* pd.DataFrame(new_data) for a dict of Series: one column per entry, in
\* insertion order, on the sorted union of the entries' indexes.
DataFrame(data) ==
    LET idx == SortSet(UNION { Range(data[k].series.index) : k \in DOMAIN data })
    IN  Frame(idx,
              [k \in DOMAIN data |->
                  [name   |-> data[k].name,
                   values |-> [i \in DOMAIN idx |->
                                  ValueAt(data[k].series.index, data[k].series.values, idx[i])]]])

\* A concatenation that keeps the columns of b only.
concat_right(a, b) ==
    LET idx == SortSet(Range(a.index) \cup Range(b.index))
    IN  Frame(idx, reindex(b, idx).columns)

\* pd.concat([a, b], axis=1): the columns of a, then the columns of b, on the
\* union of the two indexes; equal names are kept side by side.
concat(a, b) ==
    LET idx == SortSet(Range(a.index) \cup Range(b.index))
    IN  Frame(idx, reindex(a, idx).columns \o reindex(b, idx).columns)

index_min(frame) == SetMin(Range(frame.index))
index_max(frame) == SetMax(Range(frame.index))

Min2(a, b) == IF a <= b THEN a ELSE b
Max2(a, b) == IF a >= b THEN a ELSE b

----------------------------------------------------------------------------
(* The provider, and fetch_series with its retry decorator *)

\* What fred.get_series can return when a call succeeds: a series with
\* observations on some days, or a series with none.
ProviderSeries == { Series(S, 1) : S \in (SUBSET Dates) \ {{}} } \cup {EmptySeries}

\* @retry(stop=stop_after_attempt(3), wait=wait_fixed(2)) around one provider
\* call: `failures` attempts raise before one returns `series`. The call is
\* repeated until it returns or the third attempt has raised; then the
\* decorator raises RetryError.
fetch_series(failures, series) ==
    IF failures >= stop_after_attempt
    THEN [raised |-> TRUE, calls |-> stop_after_attempt, series |-> EmptySeries]
    ELSE [raised |-> FALSE, calls |-> failures + 1, series |-> series]

----------------------------------------------------------------------------
(* State *)

VARIABLES
    cache_file,           \* CACHE_FILE: NoFile or the pickled DataFrame
    metadata_file,        \* CACHE_METADATA_FILE: NoFile or the JSON list
    pc,                   \* position of the running fetch_fred_data call
    force_refresh,        \* its argument
    cached_data,          \* its locals
    cached_indicators,
    indicators_to_fetch,
    pending,              \* keys the for loop has not visited yet
    new_data,
    df,
    exception,            \* the exception that ended the call, or "none"
    outcome,              \* per key, how its fetch ended in this call
    old_cache,            \* cache_file when the call started
    old_metadata,         \* metadata_file when the call started
    provider,             \* the series fred.get_series can return
    peer,                 \* a second fetch_fred_data call running in another process
    current,              \* the key fetch_series is running for, or NoKey
    attempt,              \* the number of its attempt in progress
    now,                  \* time elapsed since the call started
    calls,                \* the provider calls made since the call started
    derived               \* the table get_economic_data returns, or NoTable

persisted == << cache_file, metadata_file >>
locals == << force_refresh, cached_data, cached_indicators, indicators_to_fetch,
             pending, new_data, df >>
history == << outcome, old_cache, old_metadata >>
retrying == << current, attempt, now, calls >>
environment == << provider, peer >>
vars == << cache_file, metadata_file, pc, force_refresh, cached_data,
           cached_indicators, indicators_to_fetch, pending, new_data, df,
           exception, outcome, old_cache, old_metadata,
           provider, current, attempt, now, calls, derived, peer >>

NoKey == "-"
\* No second process.
NoPeer == [pc |-> "off"]
NoTable == [kind |-> "none"]
\* get_economic_data is running and has not built its table yet.
Pending == [kind |-> "pending"]

NoFile == [kind |-> "absent"]
exists(file) == file.kind # "absent"

\* A file that is there but holds no pickle (no JSON) a reader can parse.
Unreadable == [kind |-> "unreadable"]
readable(file) == file.kind # "unreadable"

\* json.dump(list(...)) writes a list; set(json.load(f)) reads it back.
JsonList(names) == [kind |-> "json", list |-> names]
json_load_set(file) == Range(file.list)

\* list(a_set): the elements in some order.
Orderings(S) == { s \in [1 .. Cardinality(S) -> S] : Range(s) = S }

NoOutcome == [k \in INDICATORS |-> "none"]

----------------------------------------------------------------------------
(* Initial states: no cache, or a cache left by an earlier process *)

\* A dataset as the save step writes it: a non-empty frame on a gap-free
\* daily axis, one column per key (holding revision 0 of its series), the
\* observation days of each column drawn from DateSets.
CanonicalOrder == CHOOSE s \in Orderings(INDICATORS) : TRUE

ListOf(K) == SelectSeq(CanonicalOrder, LAMBDA k : k \in K)

SavedFrames(DateSets) ==
    { LET keys == ListOf(DOMAIN pick)
          raw  == DataFrame([i \in DOMAIN keys |->
                                [name |-> keys[i], series |-> Series(pick[keys[i]], 0)]])
      IN  reindex(raw, date_range(index_min(raw), index_max(raw)))
      : pick \in UNION { [K -> DateSets] : K \in (SUBSET INDICATORS) \ {{}} } }

\* The sidecar is a separate file written by a separate write. It may be
\* missing (a cache older than the sidecar), list exactly the frame's
\* columns, or list catalog keys the frame has no column for.
CachesWithSidecar ==
    { c \in [cache : SavedFrames((SUBSET Dates) \ {{}}),
             metadata : {NoFile} \cup { JsonList(ListOf(K)) : K \in SUBSET INDICATORS }] :
        exists(c.metadata) => Range(columns_list(c.cache)) \subseteq json_load_set(c.metadata) }

\* It may also lack a column of the frame (the pickle was replaced and the
\* sidecar was not). These caches are enumerated for one shape of frame: every
\* column observed on the day before the last one only.
DriftDates == {{MaxDate - 1}}

CachesWithDriftedSidecar ==
    { c \in [cache : SavedFrames(DriftDates),
             metadata : { JsonList(ListOf(K)) : K \in SUBSET INDICATORS }] :
        ~ (Range(columns_list(c.cache)) \subseteq json_load_set(c.metadata)) }

InitialCaches ==
    {[cache |-> NoFile, metadata |-> NoFile]} \cup CachesWithSidecar \cup CachesWithDriftedSidecar

\* No call is running.
Idle ==
    /\ pc = "idle"
    /\ force_refresh = FALSE
    /\ cached_data = EmptyDict
    /\ cached_indicators = {}
    /\ indicators_to_fetch = {}
    /\ pending = {}
    /\ new_data = << >>
    /\ df = EmptyDict
    /\ exception = "none"
    /\ outcome = NoOutcome
    /\ old_cache = cache_file
    /\ old_metadata = metadata_file
    /\ current = NoKey
    /\ attempt = 0
    /\ now = 0
    /\ calls = << >>
    /\ derived = NoTable

Init ==
    /\ \E c \in InitialCaches : cache_file = c.cache /\ metadata_file = c.metadata
    /\ provider = ProviderSeries
    /\ peer = NoPeer
    /\ Idle

----------------------------------------------------------------------------
(* fetch_fred_data, step by step *)

\* def fetch_fred_data(force_refresh=False): cached_data = {},
\* cached_indicators = set().
Call ==
    /\ pc = "idle"
    /\ force_refresh' \in BOOLEAN
    /\ cached_data' = EmptyDict
    /\ cached_indicators' = {}
    /\ indicators_to_fetch' = {}
    /\ pending' = {}
    /\ new_data' = << >>
    /\ df' = EmptyDict
    /\ exception' = "none"
    /\ outcome' = NoOutcome
    /\ old_cache' = cache_file
    /\ old_metadata' = metadata_file
    /\ pc' = "load"
    /\ UNCHANGED << persisted, environment, retrying, derived >>

\* if CACHE_FILE.exists() and not force_refresh: read the pickle, then the
\* sidecar; without a sidecar take the frame's columns and write the sidecar.
\* pd.read_pickle and json.load raise on a file they cannot parse; nothing
\* around them catches it.
LoadCache ==
    /\ pc = "load"
    /\ IF exists(cache_file) /\ ~force_refresh
       THEN IF ~readable(cache_file)
            THEN /\ exception' = "UnpicklingError"
                 /\ pc' = "raised"
                 /\ UNCHANGED << cached_data, cached_indicators, metadata_file >>
            ELSE IF exists(metadata_file) /\ ~readable(metadata_file)
            THEN /\ cached_data' = cache_file
                 /\ exception' = "JSONDecodeError"
                 /\ pc' = "raised"
                 /\ UNCHANGED << cached_indicators, metadata_file >>
            ELSE /\ cached_data' = cache_file
                 /\ IF exists(metadata_file)
                    THEN /\ cached_indicators' = json_load_set(metadata_file)
                         /\ UNCHANGED metadata_file
                    ELSE /\ cached_indicators' = Range(columns_list(cache_file))
                         /\ \E names \in Orderings(cached_indicators') :
                                metadata_file' = JsonList(names)
                 /\ pc' = "select"
                 /\ UNCHANGED exception
       ELSE /\ pc' = "select"
            /\ UNCHANGED << cached_data, cached_indicators, metadata_file, exception >>
    /\ UNCHANGED << cache_file, force_refresh, indicators_to_fetch, pending, new_data,
                    df, history, environment, retrying, derived >>

\* for key, info in INDICATORS.items(): if force_refresh or key not in
\* cached_indicators: indicators_to_fetch.add(key)
\* Every catalog key, cached or not.
to_fetch_all(force, cached) == INDICATORS

to_fetch(force, cached) == { key \in INDICATORS : force \/ key \notin cached }

SelectIndicators ==
    /\ pc = "select"
    /\ indicators_to_fetch' = to_fetch(force_refresh, cached_indicators)
    /\ pending' = indicators_to_fetch'
    /\ pc' = IF indicators_to_fetch' = {} THEN "combine" ELSE "fetch"
    /\ UNCHANGED << persisted, force_refresh, cached_data, cached_indicators, new_data,
                    df, exception, history, environment, retrying, derived >>

\* One iteration of `for key in indicators_to_fetch` (a set: any order). A
\* raise of fetch_series is caught; an empty series is reported and dropped;
\* any other series is stored under its key.
FetchIndicator ==
    /\ pc = "fetch"
    /\ \E key \in pending, failures \in 0 .. stop_after_attempt, series \in provider :
         LET r == fetch_series(failures, series)
         IN  /\ IF r.raised
                THEN /\ outcome' = [outcome EXCEPT ![key] = "error"]
                     /\ UNCHANGED new_data
                ELSE IF r.series = EmptySeries
                THEN /\ outcome' = [outcome EXCEPT ![key] = "empty"]
                     /\ UNCHANGED new_data
                ELSE /\ outcome' = [outcome EXCEPT ![key] = "ok"]
                     /\ new_data' = Append(new_data, [name |-> key, series |-> r.series])
             /\ pending' = pending \ {key}
             /\ pc' = IF pending' = {} THEN "combine" ELSE "fetch"
    /\ UNCHANGED << persisted, force_refresh, cached_data, cached_indicators,
                    indicators_to_fetch, df, exception, old_cache, old_metadata,
                    environment, retrying, derived >>

\* combine with the daily axis taken from the new frame alone instead of from
\* both frames.
combine_on_new_axis(cached, data) ==
    IF Len(data) > 0
    THEN LET new_df == DataFrame(data)
         IN  IF ~empty(new_df)
             THEN IF ~has_empty(cached)
                  THEN [raised |-> TRUE, df |-> EmptyDict, cached_data |-> cached]
                  ELSE IF ~empty(cached)
                  THEN LET axis == date_range(index_min(new_df), index_max(new_df))
                           c    == reindex(cached, axis)
                       IN  [raised |-> FALSE, df |-> concat(c, reindex(new_df, axis)),
                            cached_data |-> c]
                  ELSE [raised |-> FALSE,
                        df |-> reindex(new_df, date_range(index_min(new_df), index_max(new_df))),
                        cached_data |-> cached]
             ELSE [raised |-> FALSE, df |-> cached, cached_data |-> cached]
    ELSE [raised |-> FALSE, df |-> cached, cached_data |-> cached]

\* combine on the days that have an observation only, without filling the
\* axis to consecutive days.
combine_on_observed_days(cached, data) ==
    IF Len(data) > 0
    THEN LET new_df == DataFrame(data)
         IN  IF ~empty(new_df)
             THEN IF ~has_empty(cached)
                  THEN [raised |-> TRUE, df |-> EmptyDict, cached_data |-> cached]
                  ELSE IF ~empty(cached)
                  THEN LET axis == SortSet(Range(cached.index) \cup Range(new_df.index))
                           c    == reindex(cached, axis)
                       IN  [raised |-> FALSE, df |-> concat(c, reindex(new_df, axis)),
                            cached_data |-> c]
                  ELSE [raised |-> FALSE, df |-> new_df, cached_data |-> cached]
             ELSE [raised |-> FALSE, df |-> cached, cached_data |-> cached]
    ELSE [raised |-> FALSE, df |-> cached, cached_data |-> cached]

\* Lines 77-101. `cached` is a dict when no cache was loaded: reading its
\* .empty raises AttributeError.
combine(cached, data) ==
    IF Len(data) > 0
    THEN LET new_df == DataFrame(data)
         IN  IF ~empty(new_df)
             THEN IF ~has_empty(cached)
                  THEN [raised |-> TRUE, df |-> EmptyDict, cached_data |-> cached]
                  ELSE IF ~empty(cached)
                  THEN LET axis == date_range(Min2(index_min(cached), index_min(new_df)),
                                              Max2(index_max(cached), index_max(new_df)))
                           c    == reindex(cached, axis)
                       IN  [raised |-> FALSE, df |-> concat(c, reindex(new_df, axis)),
                            cached_data |-> c]
                  ELSE [raised |-> FALSE,
                        df |-> reindex(new_df, date_range(index_min(new_df), index_max(new_df))),
                        cached_data |-> cached]
             ELSE [raised |-> FALSE, df |-> cached, cached_data |-> cached]
    ELSE [raised |-> FALSE, df |-> cached, cached_data |-> cached]

Combine ==
    /\ pc = "combine"
    /\ LET r == combine(cached_data, new_data)
       IN  /\ df' = r.df
           /\ cached_data' = r.cached_data
           /\ exception' = IF r.raised THEN "AttributeError" ELSE "none"
           /\ pc' = IF r.raised THEN "raised" ELSE "save"
    /\ UNCHANGED << persisted, force_refresh, cached_indicators, indicators_to_fetch,
                    pending, new_data, history, environment, retrying, derived >>

\* Save dumping the key set read at load time instead of the column list of
\* the frame it pickles.
SaveWithLoadedKeys ==
    /\ pc = "save"
    /\ IF ~has_empty(df)
       THEN /\ exception' = "AttributeError"
            /\ pc' = "raised"
            /\ UNCHANGED persisted
       ELSE /\ IF empty(df)
               THEN UNCHANGED persisted
               ELSE /\ cache_file' = df
                    /\ metadata_file' = JsonList(ListOf(cached_indicators))
            /\ pc' = "returned"
            /\ UNCHANGED exception
    /\ UNCHANGED << locals, history, environment, retrying, derived >>

\* Lines 103-112: if df.empty: report; else pickle df and dump its column
\* list; return df. df is a dict when nothing was loaded and nothing fetched.
Save ==
    /\ pc = "save"
    /\ IF ~has_empty(df)
       THEN /\ exception' = "AttributeError"
            /\ pc' = "raised"
            /\ UNCHANGED persisted
       ELSE /\ IF empty(df)
               THEN UNCHANGED persisted
               ELSE /\ cache_file' = df
                    /\ metadata_file' = JsonList(columns_list(df))
            /\ pc' = "returned"
            /\ UNCHANGED exception
    /\ UNCHANGED << locals, history, environment, retrying, derived >>

\* The caller has the returned frame or the exception.
Finish ==
    /\ \/ pc \in {"raised", "derived"}
       \/ pc = "returned" /\ derived = NoTable
    /\ pc' = "idle"
    /\ force_refresh' = FALSE
    /\ cached_data' = EmptyDict
    /\ cached_indicators' = {}
    /\ indicators_to_fetch' = {}
    /\ pending' = {}
    /\ new_data' = << >>
    /\ df' = EmptyDict
    /\ exception' = "none"
    /\ outcome' = NoOutcome
    /\ old_cache' = cache_file
    /\ old_metadata' = metadata_file
    /\ current' = NoKey
    /\ attempt' = 0
    /\ now' = 0
    /\ calls' = << >>
    /\ derived' = NoTable
    /\ UNCHANGED << persisted, environment >>

Next ==
    \/ Call
    \/ LoadCache
    \/ SelectIndicators
    \/ FetchIndicator
    \/ Combine
    \/ Save
    \/ Finish

Spec == Init /\ [][Next]_vars

----------------------------------------------------------------------------
(* The fetch loop attempt by attempt, with time *)

\* tenacity: wait_fixed(2).
wait_fixed == 2

\* time.sleep(1) after a fetch that returned.
sleep_seconds == 1

\* The longest a provider call takes.
MaxCallTime == 1

\* A retry policy that gives up one attempt late.
stop_late(attempt_number) == attempt_number > stop_after_attempt

\* stop=stop_after_attempt(3): no further attempt after this one failed.
stop(attempt_number) == attempt_number >= stop_after_attempt

\* The loop takes the next key and calls fetch_series(info["id"]).
BeginFetch ==
    /\ pc = "fetch"
    /\ \E key \in pending : current' = key
    /\ attempt' = 1
    /\ pc' = "attempt"
    /\ UNCHANGED << persisted, locals, exception, history, environment, now, calls, derived >>

Logged(duration, ok) ==
    Append(calls, [key |-> current, attempt |-> attempt, start |-> now,
                   end |-> now + duration, ok |-> ok])

\* A loop that does not take the key it has just handled off its list.
NextIteration_again ==
    /\ pending' = pending
    /\ current' = NoKey
    /\ attempt' = 0
    /\ pc' = IF pending' = {} THEN "combine" ELSE "fetch"

\* The loop goes to its next iteration, or ends.
NextIteration ==
    /\ pending' = pending \ {current}
    /\ current' = NoKey
    /\ attempt' = 0
    /\ pc' = IF pending' = {} THEN "combine" ELSE "fetch"

\* fred.get_series raises and the policy allows another attempt: tenacity
\* sleeps wait_fixed and calls fetch_series' body again.
AttemptFails ==
    /\ pc = "attempt"
    /\ ~stop(attempt)
    /\ \E duration \in 0 .. MaxCallTime :
         /\ calls' = Logged(duration, FALSE)
         /\ now' = now + duration + wait_fixed
    /\ attempt' = attempt + 1
    /\ UNCHANGED << persisted, pc, locals, exception, history, environment, current, derived >>

\* fred.get_series raises on the last attempt allowed: RetryError reaches
\* the loop's except clause, which reports it (no sleep on this path).
AttemptExhausts ==
    /\ pc = "attempt"
    /\ stop(attempt)
    /\ \E duration \in 0 .. MaxCallTime :
         /\ calls' = Logged(duration, FALSE)
         /\ now' = now + duration
    /\ outcome' = [outcome EXCEPT ![current] = "error"]
    /\ NextIteration
    /\ UNCHANGED << persisted, force_refresh, cached_data, cached_indicators,
                    indicators_to_fetch, new_data, df, exception, old_cache, old_metadata,
                    environment, derived >>

\* fred.get_series returns: fetch_series returns the series at once, the loop
\* stores it unless it is empty, then sleeps.
AttemptReturns ==
    /\ pc = "attempt"
    /\ \E duration \in 0 .. MaxCallTime, series \in provider :
         /\ calls' = Logged(duration, TRUE)
         /\ now' = now + duration + sleep_seconds
         /\ IF series = EmptySeries
            THEN /\ outcome' = [outcome EXCEPT ![current] = "empty"]
                 /\ UNCHANGED new_data
            ELSE /\ outcome' = [outcome EXCEPT ![current] = "ok"]
                 /\ new_data' = Append(new_data, [name |-> current, series |-> series])
    /\ NextIteration
    /\ UNCHANGED << persisted, force_refresh, cached_data, cached_indicators,
                    indicators_to_fetch, df, exception, old_cache, old_metadata,
                    environment, derived >>

\* Caches whose columns all have the same single observation day, with a
\* sidecar naming their columns or none.
TimedCaches ==
    {[cache |-> NoFile, metadata |-> NoFile]} \cup
    { c \in CachesWithSidecar :
        /\ c.cache \in SavedFrames(DriftDates)
        /\ exists(c.metadata) => json_load_set(c.metadata) = Range(columns_list(c.cache)) }

TimedInit ==
    /\ \E c \in TimedCaches : cache_file = c.cache /\ metadata_file = c.metadata
    /\ provider = {Series(Dates, 1), EmptySeries}
    /\ peer = NoPeer
    /\ Idle

TimedNext ==
    \/ Call
    \/ LoadCache
    \/ SelectIndicators
    \/ BeginFetch
    \/ AttemptFails
    \/ AttemptExhausts
    \/ AttemptReturns
    \/ Combine
    \/ Save
    \/ Finish

TimedSpec == TimedInit /\ [][TimedNext]_vars

\* Lines 77-101 always run to their end: control leaves the combining step,
\* to the save step or to the raise.
CombineStep == pc = "combine" /\ pc' \in {"raised", "save"}

\* The steps of a run other than the combining step.
TimedSteps ==
    \/ Call
    \/ LoadCache
    \/ SelectIndicators
    \/ BeginFetch
    \/ AttemptFails
    \/ AttemptExhausts
    \/ AttemptReturns
    \/ Save
    \/ Finish

\* Every provider call returns or raises, and the process keeps running: a
\* step that can be taken is taken.
TimedFairSpec == TimedSpec /\ WF_vars(TimedSteps) /\ WF_pc(CombineStep)

----------------------------------------------------------------------------
(* Numbers of the derived table: exact fractions *)

Abs(x) == IF x < 0 THEN 0 - x ELSE x

RECURSIVE Gcd(_, _)
Gcd(a, b) == IF b = 0 THEN a ELSE Gcd(b, a % b)

\* n/d in lowest terms with a positive denominator (d # 0).
Q(n, d) ==
    LET g == Gcd(Abs(n), Abs(d))
    IN  IF d < 0 THEN [n |-> (0 - n) \div g, d |-> (0 - d) \div g]
        ELSE [n |-> n \div g, d |-> d \div g]

\* float('nan'), and what a float division by zero gives.
NaNQ == [n |-> 0, d |-> 0]
InfQ(sign) == [n |-> sign, d |-> 0]

IsNumber(a) == a.d # 0

\* An observation of the merged frame as a float.
ToFloat(v) == IF v = NaN THEN NaNQ ELSE Q(v, 1)

\* Arithmetic on floats; NaN propagates.
QAdd(a, b) == IF IsNumber(a) /\ IsNumber(b) THEN Q(a.n * b.d + b.n * a.d, a.d * b.d) ELSE NaNQ
QSub(a, b) == IF IsNumber(a) /\ IsNumber(b) THEN Q(a.n * b.d - b.n * a.d, a.d * b.d) ELSE NaNQ
QMul(a, b) == IF IsNumber(a) /\ IsNumber(b) THEN Q(a.n * b.n, a.d * b.d) ELSE NaNQ
QDiv(a, b) ==
    IF ~(IsNumber(a) /\ IsNumber(b)) THEN NaNQ
    ELSE IF b.n # 0 THEN Q(a.n * b.d, a.d * b.n)
    ELSE IF a.n = 0 THEN NaNQ
    ELSE InfQ(IF a.n > 0 THEN 1 ELSE 0 - 1)

RECURSIVE QSum(_)
QSum(seq) == IF seq = << >> THEN Q(0, 1) ELSE QAdd(Head(seq), QSum(Tail(seq)))

----------------------------------------------------------------------------
(* get_economic_data: the transforms *)

\* The calendar: a month has DaysPerMonth days; day 1 opens month 1.
DaysPerMonth == 2

month_of(day) == ((day - 1) \div DaysPerMonth) + 1
month_end(month) == month * DaysPerMonth

\* Interpolation that fills forward only: a gap before the first known value
\* stays.
interpolate_forward(values) ==
    LET known == { i \in DOMAIN values : IsNumber(values[i]) }
    IN  [i \in DOMAIN values |->
            IF i \in known \/ known = {} THEN values[i]
            ELSE LET before == { j \in known : j < i }
                     after  == { j \in known : j > i }
                 IN  IF before = {} THEN values[i]
                     ELSE IF after = {} THEN values[SetMax(before)]
                     ELSE LET a == SetMax(before)
                              b == SetMin(after)
                          IN  QAdd(values[a],
                                   QMul(QSub(values[b], values[a]), Q(i - a, b - a)))]

\* Series.interpolate(method='linear', limit_direction='both') on the values
\* of one column: a gap between two known values is filled on the straight
\* line between them, a gap before the first (after the last) known value
\* with that value; a column without any known value stays as it is.
interpolate(values) ==
    LET known == { i \in DOMAIN values : IsNumber(values[i]) }
    IN  [i \in DOMAIN values |->
            IF i \in known \/ known = {} THEN values[i]
            ELSE LET before == { j \in known : j < i }
                     after  == { j \in known : j > i }
                 IN  IF before = {} THEN values[SetMin(after)]
                     ELSE IF after = {} THEN values[SetMax(before)]
                     ELSE LET a == SetMax(before)
                              b == SetMin(after)
                          IN  QAdd(values[a],
                                   QMul(QSub(values[b], values[a]), Q(i - a, b - a)))]

\* Series.mean() of the values at `rows`: NaN is skipped, no value gives NaN.
mean(values, rows) ==
    LET kept == SelectSeq(SortSet(rows), LAMBDA i : IsNumber(values[i]))
    IN  IF kept = << >> THEN NaNQ
        ELSE QDiv(QSum([j \in DOMAIN kept |-> values[kept[j]]]), Q(Len(kept), 1))

\* df.resample("ME"): one bin per calendar month from the month of the first
\* row to the month of the last row, labelled with the month's last day.
month_bins(index) ==
    IF index = << >> THEN << >>
    ELSE LET first == month_of(index[1])
             last  == month_of(index[Len(index)])
         IN  [m \in 1 .. (last - first + 1) |-> month_end(first + m - 1)]

\* The last value of each bin instead of the mean.
resample_last(index, values) ==
    LET bins == month_bins(index)
    IN  [m \in DOMAIN bins |->
            values[SetMax({ i \in DOMAIN index : month_end(month_of(index[i])) = bins[m] })]]

\* .mean() of each bin, column by column.
resample_mean(index, values) ==
    LET bins == month_bins(index)
    IN  [m \in DOMAIN bins |->
            mean(values, { i \in DOMAIN index : month_end(month_of(index[i])) = bins[m] })]

\* Series.ffill(), applied by pct_change before it divides.
ffill(values) ==
    [i \in DOMAIN values |->
        LET before == { j \in 1 .. i : IsNumber(values[j]) }
        IN  IF before = {} THEN values[i] ELSE values[SetMax(before)]]

\* pct_change taking the change against the row itself shifted by one less.
pct_change_short(values, periods) ==
    LET v == ffill(values)
    IN  [t \in DOMAIN values |->
            IF t < periods THEN NaNQ
            ELSE QSub(QDiv(v[t], v[t - periods + 1]), Q(1, 1))]

\* Series.pct_change(periods): v / v.shift(periods) - 1.
pct_change(values, periods) ==
    LET v == ffill(values)
    IN  [t \in DOMAIN values |->
            IF t <= periods THEN NaNQ
            ELSE QSub(QDiv(v[t], v[t - periods]), Q(1, 1))]

times_100(values) == [t \in DOMAIN values |-> QMul(values[t], Q(100, 1))]

\* The derived columns of the loop body, in the order it adds them.
\* The transforms with a year of 11 months.
Transforms_eleven ==
    << [kind |-> "mom", suffix |-> " MoM (%)", periods |-> 1],
       [kind |-> "qoq", suffix |-> " QoQ (%)", periods |-> 3],
       [kind |-> "yoy", suffix |-> " YoY (%)", periods |-> 11] >>

\* The three transforms of lines 16-18.
Transforms ==
    << [kind |-> "mom", suffix |-> " MoM (%)", periods |-> 1],
       [kind |-> "qoq", suffix |-> " QoQ (%)", periods |-> 3],
       [kind |-> "yoy", suffix |-> " YoY (%)", periods |-> 12] >>

\* df[f"{col} ..."] = df[col].pct_change(periods=...) * 100 for the three
\* transforms of one raw column.
companions(column) ==
    [k \in DOMAIN Transforms |->
        [name   |-> column.name \o Transforms[k].suffix,
         values |-> times_100(pct_change(column.values, Transforms[k].periods))]]

RECURSIVE with_companions(_, _)
with_companions(columns, raw) ==
    IF raw = << >> THEN columns
    ELSE with_companions(columns \o companions(Head(raw)), Tail(raw))

\* df.dropna(how='all') keeping every row.
dropna_none(frame) == frame

\* df.dropna(how='all'): the rows that have a number in some column.
dropna_all(frame) ==
    LET kept == SelectSeq([i \in DOMAIN frame.index |-> i],
                          LAMBDA i : \E c \in DOMAIN frame.columns :
                                        IsNumber(frame.columns[c].values[i]))
    IN  Frame([j \in DOMAIN kept |-> frame.index[kept[j]]],
              [c \in DOMAIN frame.columns |->
                  [name   |-> frame.columns[c].name,
                   values |-> [j \in DOMAIN kept |-> frame.columns[c].values[kept[j]]]]])

\* df[col] is one column only if no other column has the name col; with two,
\* df[col] is a frame and assigning it to one new column raises ValueError.
has_duplicate_columns(frame) ==
    \E a, b \in DOMAIN frame.columns : a # b /\ frame.columns[a].name = frame.columns[b].name

\* Lines 8-12 of get_economic_data: interpolate, then monthly means.
monthly(frame) ==
    Frame(month_bins(frame.index),
          [c \in DOMAIN frame.columns |->
              [name   |-> frame.columns[c].name,
               values |-> resample_mean(frame.index,
                              interpolate([i \in DOMAIN frame.index |->
                                              ToFloat(frame.columns[c].values[i])]))]])

\* Lines 14-18: the raw columns followed by their companions.
augmented(m) == Frame(m.index, with_companions(m.columns, m.columns))

\* Lines 8-23 of get_economic_data on the frame fetch_fred_data returned.
derive(frame) ==
    IF has_duplicate_columns(frame)
    THEN [raised |-> TRUE, table |-> NoTable]
    ELSE [raised |-> FALSE, table |-> dropna_all(augmented(monthly(frame)))]

\* callbacks.py colname(ind, trans, for_display): the column of the derived
\* table that holds transform `trans` of indicator `ind`.
colname(ind, trans, description, for_display) ==
    LET base == IF for_display THEN description ELSE ind
    IN  IF trans = "raw" THEN base
        ELSE IF trans = "mom" THEN base \o " MoM (%)"
        ELSE IF trans = "qoq" THEN base \o " QoQ (%)"
        ELSE base \o " YoY (%)"

----------------------------------------------------------------------------
(* fetch_fred_data on files that cannot be parsed *)

\* A cache file that does not unpickle, beside any sidecar; a sidecar that is
\* not JSON, beside a cache.
UnreadableCaches ==
    { [cache |-> Unreadable, metadata |-> m] :
        m \in {NoFile, Unreadable, JsonList(CanonicalOrder)} }
    \cup { [cache |-> f, metadata |-> Unreadable] : f \in SavedFrames(DriftDates) }

UnreadableInit ==
    /\ \E c \in UnreadableCaches : cache_file = c.cache /\ metadata_file = c.metadata
    /\ provider = ProviderSeries
    /\ peer = NoPeer
    /\ Idle

UnreadableSpec == UnreadableInit /\ [][Next]_vars

----------------------------------------------------------------------------
(* get_economic_data, step by step *)

\* def get_economic_data(): df = fetch_fred_data()
GetEconomicData ==
    /\ pc = "idle"
    /\ force_refresh' = FALSE
    /\ cached_data' = EmptyDict
    /\ cached_indicators' = {}
    /\ indicators_to_fetch' = {}
    /\ pending' = {}
    /\ new_data' = << >>
    /\ df' = EmptyDict
    /\ exception' = "none"
    /\ outcome' = NoOutcome
    /\ old_cache' = cache_file
    /\ old_metadata' = metadata_file
    /\ derived' = Pending
    /\ pc' = "load"
    /\ UNCHANGED << persisted, environment, retrying >>

\* fetch_fred_data has returned df: lines 8-23.
Derive ==
    /\ pc = "returned"
    /\ derived = Pending
    /\ LET r == derive(df)
       IN  /\ derived' = r.table
           /\ exception' = IF r.raised THEN "ValueError" ELSE "none"
           /\ pc' = IF r.raised THEN "raised" ELSE "derived"
    /\ UNCHANGED << persisted, locals, history, environment, retrying >>

\* The first n months of the calendar from month a on: all their days, or
\* the first day of each.
DaysOfMonths(a, n) == (month_end(a - 1) + 1) .. month_end(a + n - 1)
FirstDays(a, n) == { month_end(m - 1) + 1 : m \in a .. (a + n - 1) }

\* A series of missing values (the provider's '.') on the days S.
MissingSeries(S) ==
    LET idx == SortSet(S) IN [index |-> idx, values |-> [i \in DOMAIN idx |-> NaN]]

\* The series lengths, in months, and the latest month a series starts in.
SeriesMonths == {5, 11, 13, 24}
MaxStartMonth == 2

DailyDateSets == { DaysOfMonths(a, n) : a \in 1 .. MaxStartMonth, n \in SeriesMonths }
MonthlyDateSets == { FirstDays(a, n) : a \in 1 .. MaxStartMonth, n \in SeriesMonths }
\* A series that starts and ends in the middle of a month.
PartialDateSets == { (month_end(0) + 2) .. (month_end(5) - 1) }

EconomicProvider ==
    { Series(S, 1) : S \in DailyDateSets \cup MonthlyDateSets }
        \cup {MissingSeries(DaysOfMonths(1, 5)), EmptySeries}

\* A cache holding nothing but missing values.
MissingFrames ==
    { DataFrame(<< [name |-> k, series |-> MissingSeries(DaysOfMonths(1, 5))] >>) : k \in INDICATORS }

\* Caches with a sidecar naming their columns or none, and one cache whose
\* sidecar lacks its column.
EconomicCaches ==
    {[cache |-> NoFile, metadata |-> NoFile]}
    \cup UNION { { [cache |-> f, metadata |-> m] : m \in {NoFile, JsonList(columns_list(f))} } :
                   f \in SavedFrames(DailyDateSets \cup PartialDateSets) \cup MissingFrames }
    \cup { [cache |-> f, metadata |-> JsonList(<< >>)] :
             f \in SavedFrames({DaysOfMonths(1, 11)}) }

EconomicInit ==
    /\ \E c \in EconomicCaches : cache_file = c.cache /\ metadata_file = c.metadata
    /\ provider = EconomicProvider
    /\ peer = NoPeer
    /\ Idle

EconomicNext ==
    \/ GetEconomicData
    \/ LoadCache
    \/ SelectIndicators
    \/ FetchIndicator
    \/ Combine
    \/ Save
    \/ Derive
    \/ Finish

EconomicSpec == EconomicInit /\ [][EconomicNext]_vars

----------------------------------------------------------------------------
(* Two non-force runs on the same cache files, file access by file access *)

\* The steps of a run that touch the files, one file access each. There is no
\* lock: the steps of the two runs interleave freely. Each read or write of
\* one file is taken as a whole.

\* fetch_fred_data() called in the first process.
RunCall ==
    /\ Call
    /\ force_refresh' = FALSE

\* Line 33-35: the pickle is read if it is there.
ReadPickle ==
    /\ pc = "load"
    /\ IF exists(cache_file)
       THEN /\ cached_data' = cache_file
            /\ pc' = "metadata"
       ELSE /\ pc' = "select"
            /\ UNCHANGED cached_data
    /\ UNCHANGED << persisted, force_refresh, cached_indicators, indicators_to_fetch,
                    pending, new_data, df, exception, history, environment, retrying,
                    derived >>

\* Lines 38-46: the sidecar is read, or written from the columns just read.
ReadMetadata ==
    /\ pc = "metadata"
    /\ IF exists(metadata_file)
       THEN /\ cached_indicators' = json_load_set(metadata_file)
            /\ UNCHANGED metadata_file
       ELSE /\ cached_indicators' = Range(columns_list(cached_data))
            /\ \E names \in Orderings(cached_indicators') :
                   metadata_file' = JsonList(names)
    /\ pc' = "select"
    /\ UNCHANGED << cache_file, force_refresh, cached_data, indicators_to_fetch, pending,
                    new_data, df, exception, history, environment, retrying, derived >>

\* Lines 103-108: df.to_pickle(CACHE_FILE) unless df is empty.
WritePickle ==
    /\ pc = "save"
    /\ IF ~has_empty(df)
       THEN /\ exception' = "AttributeError"
            /\ pc' = "raised"
            /\ UNCHANGED cache_file
       ELSE IF empty(df)
       THEN /\ pc' = "returned"
            /\ UNCHANGED << cache_file, exception >>
       ELSE /\ cache_file' = df
            /\ pc' = "dump"
            /\ UNCHANGED exception
    /\ UNCHANGED << metadata_file, locals, history, environment, retrying, derived >>

\* A dump of the column list joined with what the sidecar already lists.
WriteMetadata_merging ==
    /\ pc = "dump"
    /\ metadata_file' = JsonList(ListOf(Range(columns_list(df))
                                          \cup (IF exists(metadata_file)
                                                THEN json_load_set(metadata_file) ELSE {})))
    /\ pc' = "returned"
    /\ UNCHANGED << cache_file, locals, exception, history, environment, retrying, derived >>

\* Lines 109-112: json.dump(list(df.columns), f); return df.
WriteMetadata ==
    /\ pc = "dump"
    /\ metadata_file' = JsonList(columns_list(df))
    /\ pc' = "returned"
    /\ UNCHANGED << cache_file, locals, exception, history, environment, retrying, derived >>

\* The second process, before it calls fetch_fred_data().
PeerIdle == [pc |-> "idle"]

PeerSteps ==
    << persisted, pc, locals, exception, history, provider, retrying, derived >>

PeerCall ==
    /\ peer = PeerIdle
    /\ peer' = [pc |-> "load", cached_data |-> EmptyDict, cached_indicators |-> {},
                pending |-> {}, new_data |-> << >>, df |-> EmptyDict,
                outcome |-> NoOutcome, old_cache |-> cache_file,
                old_metadata |-> metadata_file]
    /\ UNCHANGED PeerSteps

PeerReadPickle ==
    /\ peer.pc = "load"
    /\ peer' = IF exists(cache_file)
               THEN [peer EXCEPT !.cached_data = cache_file, !.pc = "metadata"]
               ELSE [peer EXCEPT !.pc = "select"]
    /\ UNCHANGED PeerSteps

PeerReadMetadata ==
    /\ peer.pc = "metadata"
    /\ IF exists(metadata_file)
       THEN /\ peer' = [peer EXCEPT !.cached_indicators = json_load_set(metadata_file),
                                    !.pc = "select"]
            /\ UNCHANGED metadata_file
       ELSE /\ peer' = [peer EXCEPT !.cached_indicators = Range(columns_list(peer.cached_data)),
                                    !.pc = "select"]
            /\ \E names \in Orderings(Range(columns_list(peer.cached_data))) :
                   metadata_file' = JsonList(names)
    /\ UNCHANGED << cache_file, pc, locals, exception, history, provider, retrying, derived >>

PeerSelect ==
    /\ peer.pc = "select"
    /\ LET keys == to_fetch(FALSE, peer.cached_indicators)
       IN  peer' = [peer EXCEPT !.pending = keys,
                                !.pc = IF keys = {} THEN "combine" ELSE "fetch"]
    /\ UNCHANGED PeerSteps

PeerFetch ==
    /\ peer.pc = "fetch"
    /\ \E key \in peer.pending, failures \in {0, stop_after_attempt}, series \in provider :
         LET r    == fetch_series(failures, series)
             left == peer.pending \ {key}
             to   == IF left = {} THEN "combine" ELSE "fetch"
         IN  peer' = IF r.raised
                     THEN [peer EXCEPT !.outcome[key] = "error", !.pending = left, !.pc = to]
                     ELSE IF r.series = EmptySeries
                     THEN [peer EXCEPT !.outcome[key] = "empty", !.pending = left, !.pc = to]
                     ELSE [peer EXCEPT !.outcome[key] = "ok", !.pending = left, !.pc = to,
                                       !.new_data = Append(peer.new_data,
                                                       [name |-> key, series |-> r.series])]
    /\ UNCHANGED PeerSteps

PeerCombine ==
    /\ peer.pc = "combine"
    /\ LET r == combine(peer.cached_data, peer.new_data)
       IN  peer' = [peer EXCEPT !.df = r.df, !.cached_data = r.cached_data,
                                !.pc = IF r.raised THEN "raised" ELSE "save"]
    /\ UNCHANGED PeerSteps

PeerWritePickle ==
    /\ peer.pc = "save"
    /\ IF ~has_empty(peer.df)
       THEN /\ peer' = [peer EXCEPT !.pc = "raised"]
            /\ UNCHANGED cache_file
       ELSE IF empty(peer.df)
       THEN /\ peer' = [peer EXCEPT !.pc = "returned"]
            /\ UNCHANGED cache_file
       ELSE /\ cache_file' = peer.df
            /\ peer' = [peer EXCEPT !.pc = "dump"]
    /\ UNCHANGED << metadata_file, pc, locals, exception, history, provider, retrying, derived >>

PeerWriteMetadata ==
    /\ peer.pc = "dump"
    /\ metadata_file' = JsonList(columns_list(peer.df))
    /\ peer' = [peer EXCEPT !.pc = "returned"]
    /\ UNCHANGED << cache_file, pc, locals, exception, history, provider, retrying, derived >>

\* Both calls have ended; the next pair of runs can start.
BothFinish ==
    /\ pc \in {"returned", "raised"}
    /\ peer.pc \in {"returned", "raised"}
    /\ pc' = "idle"
    /\ force_refresh' = FALSE
    /\ cached_data' = EmptyDict
    /\ cached_indicators' = {}
    /\ indicators_to_fetch' = {}
    /\ pending' = {}
    /\ new_data' = << >>
    /\ df' = EmptyDict
    /\ exception' = "none"
    /\ outcome' = NoOutcome
    /\ old_cache' = cache_file
    /\ old_metadata' = metadata_file
    /\ peer' = PeerIdle
    /\ UNCHANGED << persisted, provider, retrying, derived >>

\* Each provider series has one observation day.
SingleDayProvider == { Series({d}, 1) : d \in Dates } \cup {EmptySeries}

ConcurrentInit ==
    /\ \E c \in TimedCaches : cache_file = c.cache /\ metadata_file = c.metadata
    /\ provider = SingleDayProvider
    /\ peer = PeerIdle
    /\ Idle

ConcurrentNext ==
    \/ RunCall
    \/ ReadPickle
    \/ ReadMetadata
    \/ SelectIndicators
    \/ FetchIndicator
    \/ Combine
    \/ WritePickle
    \/ WriteMetadata
    \/ PeerCall
    \/ PeerReadPickle
    \/ PeerReadMetadata
    \/ PeerSelect
    \/ PeerFetch
    \/ PeerCombine
    \/ PeerWritePickle
    \/ PeerWriteMetadata
    \/ BothFinish

ConcurrentSpec == ConcurrentInit /\ [][ConcurrentNext]_vars

----------------------------------------------------------------------------
(* Vocabulary of the properties *)

\* The call has ended: it returned df or it raised.
Finished == pc \in {"returned", "raised"}

Fetched == { k \in INDICATORS : outcome[k] = "ok" }
Failed == { k \in INDICATORS : outcome[k] = "error" }
Attempted == { k \in INDICATORS : outcome[k] # "none" }

\* The series stored in new_data under key k (k is in Fetched).
SeriesOf(k) == new_data[CHOOSE i \in DOMAIN new_data : new_data[i].name = k].series

ColumnNames(frame) == Range(columns_list(frame))
ColumnsNamed(frame, k) == { c \in DOMAIN frame.columns : frame.columns[c].name = k }

\* Column c of frame is the series: its observations on their days, NaN on
\* every other day of the frame's index.
HoldsSeries(frame, c, series) ==
    /\ Range(series.index) \subseteq Range(frame.index)
    /\ \A i \in DOMAIN frame.index :
          frame.columns[c].values[i] = ValueAt(series.index, series.values, frame.index[i])

\* Column c of frame is column o of old, row for row, on every day of old.
Carries(frame, c, old, o) ==
    /\ frame.columns[c].name = old.columns[o].name
    /\ \A i \in DOMAIN old.index :
          /\ old.index[i] \in Range(frame.index)
          /\ ValueAt(frame.index, frame.columns[c].values, old.index[i])
                = old.columns[o].values[i]

\* frame still has every column of old that is named k, with the same values.
KeepsColumn(frame, old, k) ==
    /\ has_empty(frame)
    /\ \A o \in ColumnsNamed(old, k) : \E c \in DOMAIN frame.columns : Carries(frame, c, old, o)

\* The consecutive days from the first to the last day of S.
DaySpan(S) == date_range(SetMin(S), SetMax(S))

\* Every day the loaded cache or a newly fetched series has an observation row for.
MergedDays ==
    (IF exists(old_cache) THEN Range(old_cache.index) ELSE {})
        \cup UNION { Range(new_data[i].series.index) : i \in DOMAIN new_data }

----------------------------------------------------------------------------
(* Properties *)

\* C1. Cold start: a non-force call that finds no cache file attempts every
\* catalog indicator and returns, without raising, a dataset whose columns are
\* exactly the fetched non-empty series (no column if none was fetched).
C1_ColdStartReturnsFetched ==
    (Finished /\ ~force_refresh /\ ~exists(old_cache)) =>
        /\ pc = "returned"
        /\ Attempted = INDICATORS
        /\ has_empty(df) => /\ ColumnNames(df) = Fetched
                            /\ \A k \in Fetched : \A c \in ColumnsNamed(df, k) :
                                  HoldsSeries(df, c, SeriesOf(k))
        /\ ~has_empty(df) => Fetched = {}

\* C2. Whatever the fetch outcomes, the cache state and the mode, the call
\* returns a dataset: it never ends by raising.
C2_RunNeverRaises ==
    Finished => (pc # "raised" /\ exception = "none")

\* C3. A fetch that fails does not stop the loop: every indicator of the
\* to-fetch set is attempted, each one fetched is a column of the returned
\* dataset, and a failed one is no new column of it and no new entry of the
\* sidecar.
C3_FailureSkipsOnlyThatIndicator ==
    (Finished /\ Failed # {}) =>
        /\ Attempted = indicators_to_fetch
        /\ pc = "returned"
        /\ \A k \in Fetched : \E c \in ColumnsNamed(df, k) : HoldsSeries(df, c, SeriesOf(k))
        /\ \A k \in Failed :
              /\ k \in ColumnNames(df) => (exists(old_cache) /\ k \in ColumnNames(old_cache))
              /\ k \in json_load_set(metadata_file) => k \in ColumnNames(df)

\* C4. When the fetch of I fails, in either mode, each column for I of the
\* cache persisted before the call is, with the same values, in the returned
\* dataset and in the cache persisted after the call.
C4_FailedFetchKeepsCachedColumn ==
    \A k \in INDICATORS :
        (Finished /\ k \in Failed /\ exists(old_cache) /\ k \in ColumnNames(old_cache)) =>
            /\ pc = "returned"
            /\ KeepsColumn(df, old_cache, k)
            /\ KeepsColumn(cache_file, old_cache, k)

\* C5. A non-force call that fetches nothing (nothing to fetch, or nothing
\* usable returned) returns the loaded cache as it is, an empty dataset when
\* there was none, and leaves the persisted dataset as it was.
C5_NothingFetchedReturnsCache ==
    (Finished /\ ~force_refresh /\ Fetched = {}) =>
        /\ pc = "returned"
        /\ exists(old_cache) => df = old_cache
        /\ cache_file = old_cache

\* C6. Whenever a new series was fetched, the index of the merged dataset is
\* exactly the consecutive days from the earliest to the latest day of the
\* cached index and the new series.
C6_UnionIndex ==
    (Finished /\ Fetched # {}) =>
        /\ pc = "returned"
        /\ df.index = DaySpan(MergedDays)

\* C7. After a force call that fetched I, the returned dataset has one column
\* I, holding the fetched values and no value on every other day.
C7_ForceOverwrites ==
    \A k \in INDICATORS :
        (Finished /\ force_refresh /\ k \in Fetched) =>
            /\ pc = "returned"
            /\ Cardinality(ColumnsNamed(df, k)) = 1
            /\ \A c \in ColumnsNamed(df, k) : HoldsSeries(df, c, SeriesOf(k))

\* C8. A force call puts every catalog indicator in the to-fetch set, then
\* merges, saves and returns the merged dataset, which is the new cache.
C8_ForceRefreshCompletes ==
    (Finished /\ force_refresh) =>
        /\ indicators_to_fetch = INDICATORS
        /\ pc = "returned"
        /\ Fetched # {} => cache_file = df

\* C9. No loss of history: a non-force call on an existing cache returns, and
\* persists, a dataset that has every column of the loaded cache with the same
\* value on every day of the loaded index; it has at least as many rows and
\* columns.
C9_NoLossOfHistory ==
    (Finished /\ ~force_refresh /\ exists(old_cache)) =>
        /\ pc = "returned"
        /\ \A k \in ColumnNames(old_cache) :
              KeepsColumn(df, old_cache, k) /\ KeepsColumn(cache_file, old_cache, k)
        /\ Range(old_cache.index) \subseteq Range(df.index)
        /\ Len(df.columns) >= Len(old_cache.columns)

\* A non-force call on an existing cache returned a dataset with more days and
\* more columns than the cache had.
C9_Witness ==
    /\ pc = "returned" /\ ~force_refresh /\ exists(old_cache)
    /\ Len(df.index) > Len(old_cache.index)
    /\ Len(df.columns) > Len(old_cache.columns)
    /\ \E c \in DOMAIN old_cache.columns, i \in DOMAIN old_cache.index :
          old_cache.columns[c].values[i] # NaN

\* C10. When a call returns a merged dataset, the persisted dataset is the
\* returned one and the persisted sidecar lists exactly its column names.
C10_SavedIsReturned ==
    pc = "returned" =>
        /\ cache_file = df
        /\ exists(metadata_file)
        /\ json_load_set(metadata_file) = ColumnNames(cache_file)

\* A call returned a dataset that differs from the cache it started on, and
\* the sidecar it started on did not list that dataset's columns.
C10_Witness ==
    /\ pc = "returned"
    /\ exists(old_cache) /\ exists(old_metadata)
    /\ df # old_cache
    /\ json_load_set(old_metadata) # ColumnNames(df)

\* The provider calls logged for key k, in order.
CallsFor(k) == SelectSeq(calls, LAMBDA c : c.key = k)

\* C11. One fetch_series invocation calls the provider at most 3 times; a
\* call that succeeds is its last call and ends it with that success; each
\* further attempt starts exactly 2 time units after the failed one ended;
\* it raises exactly when 3 calls have failed.
C11_RetryPolicy ==
    \A k \in INDICATORS :
        LET log == CallsFor(k)
        IN  /\ Len(log) <= 3
            /\ \A i \in DOMAIN log :
                  /\ log[i].attempt = i
                  /\ i < Len(log) => /\ ~log[i].ok
                                     /\ log[i + 1].start = log[i].end + 2
                  /\ log[i].ok => outcome[k] \in {"ok", "empty"}
            /\ outcome[k] = "error" <=> (Len(log) = 3 /\ \A i \in DOMAIN log : ~log[i].ok)
            /\ outcome[k] \in {"ok", "empty"} => (Len(log) >= 1 /\ log[Len(log)].ok)

\* One invocation succeeded at its third call, another failed three times.
C11_Witness ==
    \E k, j \in INDICATORS :
        /\ outcome[k] = "ok" /\ Len(CallsFor(k)) = 3
        /\ outcome[j] = "error" /\ Len(CallsFor(j)) = 3

----------------------------------------------------------------------------
(* The derived table *)

\* get_economic_data has returned its table.
HasTable == pc = "derived"

\* The values of the column of the table that is named `name`.
Col(frame, name) ==
    frame.columns[CHOOSE c \in DOMAIN frame.columns : frame.columns[c].name = name].values

\* (C[t] - C[t-k]) / C[t-k] * 100, no value on the first k rows.
PercentChange(C, t, k) ==
    IF t <= k THEN NaNQ
    ELSE QMul(QDiv(QSub(C[t], C[t - k]), C[t - k]), Q(100, 1))

\* C12: every MoM, QoQ and YoY value of the derived table is
\* (C[t] - C[t-k]) / C[t-k] * 100 of its raw column with k = 1, 3, 12, and
\* no value (not zero) on the first k rows; monthly 100, 110, 121 give a
\* MoM of 10 at the third row.
C12_PercentChange ==
    /\ times_100(pct_change(<< Q(100, 1), Q(110, 1), Q(121, 1) >>, 1))
            = << NaNQ, Q(10, 1), Q(10, 1) >>
    /\ HasTable =>
          \A c \in DOMAIN df.columns :
              LET name == df.columns[c].name
                  C    == Col(derived, name)
              IN  \A t \in DOMAIN derived.index :
                      /\ Col(derived, name \o " MoM (%)")[t] = PercentChange(C, t, 1)
                      /\ Col(derived, name \o " QoQ (%)")[t] = PercentChange(C, t, 3)
                      /\ Col(derived, name \o " YoY (%)")[t] = PercentChange(C, t, 12)

\* A table of more than 12 rows with a column that changes from month to
\* month and has a year-over-year value.
C12_Witness ==
    /\ HasTable
    /\ Len(derived.index) > 12
    /\ \E c \in DOMAIN df.columns :
          LET name == df.columns[c].name
          IN  /\ IsNumber(Col(derived, name \o " YoY (%)")[13])
              /\ Col(derived, name \o " MoM (%)")[2].n > 0
              /\ ~IsNumber(Col(derived, name \o " QoQ (%)")[3])

\* The months in which column c of the merged dataset has an observation.
ObservedMonths(frame, c) ==
    { month_of(frame.index[i]) :
        i \in { j \in DOMAIN frame.index : frame.columns[c].values[j] # NaN } }

\* The rows of the table after the month in which column c is first observed.
AfterFirstMonth(frame, c) ==
    { t \in DOMAIN derived.index :
        month_of(derived.index[t]) > SetMin(ObservedMonths(frame, c)) }

\* The lookback of a column observed in exactly 11 months: no YoY value at
\* any row, a MoM value from its second month on.
ElevenMonthLookback(c) ==
    LET name == df.columns[c].name
    IN  /\ \A t \in DOMAIN derived.index : ~IsNumber(Col(derived, name \o " YoY (%)")[t])
        /\ \A t \in AfterFirstMonth(df, c) : IsNumber(Col(derived, name \o " MoM (%)")[t])

\* C13 as stated: a column observed in exactly 11 months has no YoY value at
\* any row and a MoM value from its second row on, whatever the other
\* columns are.
C13_ElevenMonthsAnyDataset ==
    HasTable =>
        \A c \in DOMAIN df.columns :
            Cardinality(ObservedMonths(df, c)) = 11 => ElevenMonthLookback(c)

\* C13: a column observed in exactly 11 months has no YoY value at any row
\* and a MoM value from its second row on, when the merged dataset spans at
\* most 12 months.
C13_ElevenMonths ==
    (HasTable /\ Len(derived.index) <= 12) =>
        \A c \in DOMAIN df.columns :
            Cardinality(ObservedMonths(df, c)) = 11 => ElevenMonthLookback(c)

\* An 11-month column next to a shorter one that starts a month earlier: a
\* table of 12 rows.
C13_Witness ==
    /\ HasTable
    /\ Len(derived.index) = 12
    /\ \E c, o \in DOMAIN df.columns :
          /\ Cardinality(ObservedMonths(df, c)) = 11
          /\ Cardinality(ObservedMonths(df, o)) = 5
          /\ SetMin(ObservedMonths(df, o)) < SetMin(ObservedMonths(df, c))

\* get_economic_data has ended, by a return or by a raise.
Ended == pc \in {"derived", "raised"}

\* C14: a run of get_economic_data with no cache, in which one indicator is
\* fetched and its series has 24 months of daily data, returns a table of 24
\* rows with MoM from row 2, QoQ from row 4, YoY from row 13 and no value
\* before.
C14_EndToEnd ==
    (/\ Ended
     /\ ~exists(old_cache)
     /\ \E k \in INDICATORS : Fetched = {k} /\ SeriesOf(k) = Series(DaysOfMonths(1, 24), 1))
    => /\ HasTable
       /\ Len(derived.index) = 24
       /\ \A c \in DOMAIN df.columns :
             LET name == df.columns[c].name
             IN  \A t \in DOMAIN derived.index :
                     /\ IsNumber(Col(derived, name \o " MoM (%)")[t]) <=> t >= 2
                     /\ IsNumber(Col(derived, name \o " QoQ (%)")[t]) <=> t >= 4
                     /\ IsNumber(Col(derived, name \o " YoY (%)")[t]) <=> t >= 13

\* C15: a monthly row is missing from the derived table exactly when every
\* raw and every derived column has no value there; the rows that remain
\* keep their values.
C15_RowPruning ==
    HasTable =>
        LET full == augmented(monthly(df))
        IN  /\ Range(derived.index) \subseteq Range(full.index)
            /\ \A i \in DOMAIN full.index :
                  /\ full.index[i] \notin Range(derived.index)
                        <=> \A c \in DOMAIN full.columns : ~IsNumber(full.columns[c].values[i])
                  /\ full.index[i] \in Range(derived.index) =>
                        \A c \in DOMAIN full.columns :
                            derived.columns[c].values[Position(derived.index, full.index[i])]
                                = full.columns[c].values[i]

\* A dataset of missing values only: its monthly rows are pruned.
C15_Witness ==
    /\ HasTable
    /\ Len(derived.index) < Len(monthly(df).index)

\* C16: whenever fetch_fred_data returns a dataset, the table exists and has,
\* for each raw column, the column itself and its three companions under the
\* names colname gives, and nothing more.
C16_CompanionColumns ==
    (Ended /\ has_empty(df)) =>
        /\ HasTable
        /\ Len(derived.columns) = 4 * Len(df.columns)
        /\ \A c \in DOMAIN df.columns :
              \A trans \in {"raw", "mom", "qoq", "yoy"} :
                  Cardinality(ColumnsNamed(derived,
                      colname(df.columns[c].name, trans, df.columns[c].name, FALSE))) = 1

----------------------------------------------------------------------------
(* Loading and merging *)

\* C17: a run that finds a cache file or a sidecar it cannot parse goes on
\* as on a cold start: it attempts every catalog indicator and returns.
C17_UnreadableCacheIsColdStart ==
    (/\ Finished
     /\ exists(old_cache)
     /\ ~readable(old_cache) \/ ~readable(old_metadata))
    => /\ pc = "returned"
       /\ Attempted = INDICATORS

\* The keys the metadata loaded by a run names: the sidecar's list, or the
\* cache's columns when the cache has no sidecar, or none without a cache.
LoadedMetadata ==
    IF ~exists(old_cache) THEN {}
    ELSE IF exists(old_metadata) THEN json_load_set(old_metadata)
    ELSE ColumnNames(old_cache)

\* The fetch loop of the run is over.
LoopDone == pc \in {"combine", "save", "returned", "raised"}

\* C18: in a non-force run the indicators attempted are exactly the catalog
\* keys the loaded metadata does not name; a key it names is not asked of the
\* provider.
C18_ToFetchDecision ==
    (LoopDone /\ ~force_refresh) =>
        /\ Attempted = INDICATORS \ LoadedMetadata
        /\ \A k \in LoadedMetadata \cap INDICATORS : outcome[k] = "none"

\* A run that returns having asked for one key and skipped the other.
C18_Witness ==
    /\ pc = "returned"
    /\ ~force_refresh
    /\ \E k, j \in INDICATORS :
          /\ k \in Attempted /\ k \notin LoadedMetadata
          /\ j \notin Attempted /\ j \in LoadedMetadata

\* C19: the returned dataset has the columns of the loaded cache and the
\* fetched keys, each name once, and a fetched key's column holds the fetched
\* series.
C19_ColumnUnion ==
    pc = "returned" =>
        /\ ColumnNames(df)
              = (IF has_empty(cached_data) THEN ColumnNames(cached_data) ELSE {}) \cup Fetched
        /\ \A k \in ColumnNames(df) : Cardinality(ColumnsNamed(df, k)) = 1
        /\ \A k \in Fetched : \A c \in ColumnsNamed(df, k) : HoldsSeries(df, c, SeriesOf(k))

\* C20: in a non-force run that loads a cache with a sidecar, the keys taken
\* as cached are the columns of the dataset, so the keys to fetch are the
\* catalog keys that are not columns.
C20_StaleMetadata ==
    (/\ pc \in {"fetch", "combine", "save", "returned"}
     /\ ~force_refresh
     /\ exists(old_cache)
     /\ exists(old_metadata))
    => /\ cached_indicators = ColumnNames(old_cache)
       /\ indicators_to_fetch = INDICATORS \ ColumnNames(old_cache)

----------------------------------------------------------------------------
(* Across runs *)

\* The number of columns named k in a frame; none in what is not a frame.
ColumnCount(obj, k) == IF has_empty(obj) THEN Cardinality(ColumnsNamed(obj, k)) ELSE 0

\* The keys a file of metadata names; none when there is no file.
KeysIn(file) == IF exists(file) THEN json_load_set(file) ELSE {}

\* The keys the next non-force run will take as cached, given the files as
\* they are now.
CachedNextRun ==
    IF ~exists(cache_file) THEN {}
    ELSE IF exists(metadata_file) THEN json_load_set(metadata_file)
    ELSE ColumnNames(cache_file)

AttemptedNextRun == to_fetch(FALSE, CachedNextRun)

\* C21: after a non-force run in which the fetch of k returned an empty
\* series, the result has no more columns named k than the loaded cache, the
\* metadata on disk does not name k unless it named it before, and the next
\* non-force run attempts k.
C21_EmptyFetch ==
    \A k \in INDICATORS :
        (Finished /\ ~force_refresh /\ outcome[k] = "empty") =>
            /\ has_empty(df) => ColumnCount(df, k) = ColumnCount(cached_data, k)
            /\ k \in KeysIn(metadata_file) => k \in KeysIn(old_metadata)
            /\ k \in AttemptedNextRun

\* C22: the provider calls of a run do not overlap, and the first call for
\* an indicator starts at least the spacing delay after the last call for
\* the indicator before it ended, whether that one returned or failed.
C22_Spacing ==
    \A i \in 1 .. (Len(calls) - 1) :
        /\ calls[i + 1].start >= calls[i].end
        /\ calls[i].key # calls[i + 1].key =>
              calls[i + 1].start >= calls[i].end + sleep_seconds

\* C23: the dataset on disk always has consecutive calendar days for index
\* (strictly increasing, none twice) and only catalog keys for column names.
C23_DatasetInvariant ==
    exists(cache_file) =>
        /\ \A i \in 1 .. (Len(cache_file.index) - 1) :
              cache_file.index[i + 1] = cache_file.index[i] + 1
        /\ ColumnNames(cache_file) \subseteq INDICATORS

\* A run has just saved a dataset whose axis bridges a gap of days between
\* the cached observations and the fetched ones.
C23_Witness ==
    /\ pc = "returned"
    /\ exists(old_cache)
    /\ cache_file # old_cache
    /\ Len(cache_file.index) >= Len(old_cache.index) + 2
    /\ \E i \in DOMAIN cache_file.index :
          \A c \in DOMAIN cache_file.columns : cache_file.columns[c].values[i] = NaN

----------------------------------------------------------------------------
(* Interpolation and resampling *)

\* The values of column c of the dataset get_economic_data got, as floats.
DailyValues(c) == [i \in DOMAIN df.index |-> ToFloat(df.columns[c].values[i])]

\* The rows of column c that hold a known value.
Known(c) == { i \in DOMAIN df.index : df.columns[c].values[i] # NaN }

\* x lies on the straight line from (a, va) to (b, vb) at i.
OnLine(x, i, a, va, b, vb) == QMul(QSub(x, va), Q(b - a, 1)) = QMul(QSub(vb, va), Q(i - a, 1))

\* C24: in each column, interpolation leaves a known value as it is, puts a
\* missing value that has known values on both sides on the straight line
\* between the nearest one on each side, and gives a missing value before
\* the first (after the last) known value that first (last) value.
C24_Interpolation ==
    HasTable =>
        \A c \in DOMAIN df.columns :
            LET v == DailyValues(c)
                r == interpolate(v)
            IN  \A i \in DOMAIN v :
                    LET before == { j \in Known(c) : j < i }
                        after  == { j \in Known(c) : j > i }
                    IN  /\ i \in Known(c) => r[i] = v[i]
                        /\ (i \notin Known(c) /\ before # {} /\ after # {}) =>
                              /\ IsNumber(r[i])
                              /\ OnLine(r[i], i, SetMax(before), v[SetMax(before)],
                                        SetMin(after), v[SetMin(after)])
                        /\ (i \notin Known(c) /\ before = {} /\ after # {}) =>
                              r[i] = v[SetMin(after)]
                        /\ (i \notin Known(c) /\ before # {} /\ after = {}) =>
                              r[i] = v[SetMax(before)]

\* A column with a missing value before its first known value, one between
\* two known values and one after its last known value.
C24_Witness ==
    /\ HasTable
    /\ \E c \in DOMAIN df.columns :
          /\ Known(c) # {}
          /\ \E i \in DOMAIN df.index : i < SetMin(Known(c))
          /\ \E i \in DOMAIN df.index :
                /\ i \notin Known(c)
                /\ \E a, b \in Known(c) : a < i /\ i < b
          /\ \E i \in DOMAIN df.index : i > SetMax(Known(c))

\* The calendar months from the one of the first day of the daily axis to
\* the one of its last day, in order.
MonthsOfAxis ==
    LET first == ((df.index[1] - 1) \div DaysPerMonth) + 1
        last  == ((df.index[Len(df.index)] - 1) \div DaysPerMonth) + 1
    IN  [t \in 1 .. (last - first + 1) |-> first + t - 1]

\* The rows of the daily axis that fall in month m, in order.
RowsOfMonth(m) ==
    SelectSeq([i \in DOMAIN df.index |-> i],
              LAMBDA i : ((df.index[i] - 1) \div DaysPerMonth) + 1 = m)

\* The table has one row per month of the axis, stamped with the month's
\* last day, and each raw monthly value is the mean of the column's
\* interpolated daily values of that month.
OneRowPerMonth ==
    /\ Len(derived.index) = Len(MonthsOfAxis)
    /\ \A t \in DOMAIN derived.index :
          /\ derived.index[t] = MonthsOfAxis[t] * DaysPerMonth
          /\ t > 1 => derived.index[t] > derived.index[t - 1]
          /\ \A c \in DOMAIN df.columns :
                LET r    == interpolate(DailyValues(c))
                    rows == RowsOfMonth(MonthsOfAxis[t])
                IN  QMul(derived.columns[c].values[t], Q(Len(rows), 1))
                        = QSum([j \in DOMAIN rows |-> r[rows[j]]])

\* C25 as stated: every table has one row per calendar month of the daily
\* axis, each raw value the mean of the month's interpolated daily values,
\* stamped with the month's last day, in increasing order.
C25_ResamplingAnyDataset == HasTable => OneRowPerMonth

\* C25: a table derived from a dataset that has a known value in some
\* column has one row per calendar month of the daily axis, each raw value
\* the mean of the month's interpolated daily values, stamped with the
\* month's last day, in increasing order; a dataset without any known value
\* gives a table without rows.
C25_Resampling ==
    HasTable =>
        IF \E c \in DOMAIN df.columns : Known(c) # {}
        THEN OneRowPerMonth
        ELSE derived.index = << >>

\* A table from an axis that starts and ends inside a month, with a column
\* whose monthly mean differs from the month's last daily value.
C25_Witness ==
    /\ HasTable
    /\ Len(derived.index) > 1
    /\ (df.index[1] - 1) % DaysPerMonth # 0
    /\ df.index[Len(df.index)] % DaysPerMonth # 0
    /\ \E c \in DOMAIN df.columns :
          derived.columns[c].values[2] # ToFloat(df.columns[c].values[Len(RowsOfMonth(MonthsOfAxis[1])) + Len(RowsOfMonth(MonthsOfAxis[2]))])

----------------------------------------------------------------------------
(* From one run to the next *)

\* C26: a non-force run attempts every catalog key its metadata does not
\* name; once the fetch of such a key has returned a series with
\* observations, the run ends with the key in the metadata on disk and its
\* column in the dataset on disk, and the next non-force run does not
\* attempt it.
C26_EventualCaching ==
    \A k \in INDICATORS :
        /\ (LoopDone /\ ~force_refresh /\ k \notin LoadedMetadata) => k \in Attempted
        /\ (Finished /\ ~force_refresh /\ outcome[k] = "ok") =>
              /\ pc = "returned"
              /\ k \in KeysIn(metadata_file)
              /\ ColumnCount(cache_file, k) > 0
              /\ k \notin AttemptedNextRun

\* One step of a non-force run, seen from the dataset on disk: it stays, no
\* column name goes, the first day does not move later nor the last day
\* earlier; the save of a run that fetched nothing leaves the dataset as it
\* is.
DatasetGrows ==
    (exists(cache_file) /\ ~force_refresh) =>
        /\ exists(cache_file')
        /\ ColumnNames(cache_file) \subseteq ColumnNames(cache_file')
        /\ index_min(cache_file') <= index_min(cache_file)
        /\ index_max(cache_file') >= index_max(cache_file)
        /\ (pc = "save" /\ new_data = << >>) =>
              /\ ColumnNames(cache_file') = ColumnNames(cache_file)
              /\ cache_file'.index = cache_file.index

\* C27: over non-force runs on an existing cache the dataset on disk never
\* loses a column and its span of dates never shrinks; a run that fetches
\* nothing leaves both as they were.
C27_MonotonicGrowth == [][DatasetGrows]_vars

\* A non-force run has saved a dataset with one more column and a span that
\* reaches further on both sides than the one it loaded.
C27_Witness ==
    /\ pc = "returned"
    /\ ~force_refresh
    /\ exists(old_cache)
    /\ ColumnNames(old_cache) # ColumnNames(cache_file)
    /\ ColumnNames(old_cache) \subseteq ColumnNames(cache_file)
    /\ index_min(cache_file) < index_min(old_cache)
    /\ index_max(cache_file) > index_max(old_cache)

----------------------------------------------------------------------------
(* Two runs at once *)

\* Both runs have ended.
BothDone == pc \in {"returned", "raised"} /\ peer.pc \in {"returned", "raised"}

\* The keys either run fetched a series with observations for.
FetchedByEither == Fetched \cup { k \in INDICATORS : peer.outcome[k] = "ok" }

WrittenBy(result, loaded) ==
    (IF has_empty(result) THEN {JsonList(columns_list(result))} ELSE {})
    \cup (IF has_empty(loaded)
          THEN { JsonList(names) : names \in Orderings(ColumnNames(loaded)) }
          ELSE {})

----------------------------------------------------------------------------
(* A sidecar naming a key the dataset has no column for *)

\* The keys the sidecar a run found names without the dataset it found
\* having a column for them.
OnlyInSidecar ==
    IF exists(old_cache) /\ exists(old_metadata)
    THEN { k \in json_load_set(old_metadata) : ColumnCount(old_cache, k) = 0 }
    ELSE {}

\* C29: a non-force run that finds a key in the sidecar but no column for it
\* in the dataset returns without having fetched that key; the sidecar it
\* leaves names exactly the columns of the dataset on disk, so not that key,
\* and the next non-force run attempts the key.
C29_MetadataSelfRepair ==
    \A k \in OnlyInSidecar :
        (Finished /\ ~force_refresh) =>
            /\ pc = "returned"
            /\ outcome[k] = "none"
            /\ k \notin KeysIn(metadata_file)
            /\ json_load_set(metadata_file) = ColumnNames(cache_file)
            /\ k \in INDICATORS => k \in AttemptedNextRun

\* A non-force run has returned after finding a sidecar that named a key
\* without a column; the sidecar no longer names it.
C29_Witness ==
    /\ pc = "returned"
    /\ ~force_refresh
    /\ \E k \in OnlyInSidecar : k \notin KeysIn(metadata_file) /\ k \in AttemptedNextRun
    /\ metadata_file # old_metadata

----------------------------------------------------------------------------
(* The work of one run *)

\* The invocations of fetch_series for key k: its first attempts.
Invocations(k) == SelectSeq(CallsFor(k), LAMBDA c : c.attempt = 1)

\* The provider calls of the run so far are for keys of the to-fetch set
\* only, at most 3 for each, from at most one invocation of fetch_series per
\* key, and exactly one once the loop is over.
WorkIsBounded ==
    /\ Len(calls) <= 3 * Cardinality(indicators_to_fetch)
    /\ \A k \in INDICATORS :
          /\ k \notin indicators_to_fetch => CallsFor(k) = << >>
          /\ Len(CallsFor(k)) <= 3
          /\ Len(Invocations(k)) <= 1
          /\ (LoopDone /\ k \in indicators_to_fetch) => Len(Invocations(k)) = 1

\* C30: when every provider call returns or raises, a run that has started
\* ends; it calls fetch_series once for each key of its to-fetch set, so it
\* makes at most 3 provider calls per key of the set and none for other keys.
C30_BoundedWork == [] WorkIsBounded /\ (pc = "load" ~> Finished)

\* A run has ended after the most provider calls it can make: 3 for each
\* catalog key.
C30_Witness ==
    /\ Finished
    /\ indicators_to_fetch = INDICATORS
    /\ Len(calls) = 3 * Cardinality(INDICATORS)

====
